---- MODULE Spec2Model ----
(***************************************************************************)
(* Loomwork mobile editor: the file open / edit / autosave / commit        *)
(* lifecycle of MobileApp.tsx over the GitHub contents API (github.ts),    *)
(* the local draft store (storage) and the file format (mdx).              *)
(*                                                                         *)
(* Every async handler is one action per segment between two awaits; the   *)
(* React state patch `set({...})` of a segment is applied atomically, and  *)
(* the auto-save effect is re-evaluated in the same step whenever one of   *)
(* its dependencies (body, frontmatter, dirty) changed.                    *)
(***************************************************************************)
EXTENDS Integers, Sequences, FiniteSets, TLC

\* ---------------------------------------------------------------- bounds
NumBodies == 1      \* distinct non-empty body texts the user can type

\* ------------------------------------------------------------ value space
\* null / undefined / "no record": the empty tuple; a present record r is <<r>>
Null == <<>>
Some(r) == <<r>>

PagesDir == "src/content/pages"
PostsDir == "src/content/posts"
ContentDirs == {PagesDir, PostsDir}
PagePath == "src/content/pages/about.mdx"
PostPath == "src/content/posts/hello.mdx"
Paths == {PagePath, PostPath}

EmptyBody == 0                       \* body: ""
Bodies == 1..NumBodies
EmptyFrontmatter == {}               \* frontmatter: {}
\* the value the user types into the Title field of the frontmatter form
NewTitle == "Hello"
Titles == {NewTitle}
\* (a frontmatter is a set of <<key, value>> pairs with one value per key)
\* savedAt: Date.now(), a positive number of milliseconds
Now == 1

TheCreds == [token |-> "ghp", owner |-> "owner", repo |-> "repo"]

\* ------------------------------------------------------- mdx (file format)
\* A file text is a sequence of parts: a text with a metadata header is
\* <<"---", header, "---", body>>, a text without one is <<body>>.
serializeFile(fm, b) == <<"---", fm, "---", b>>

parseFile(text) ==
    IF Len(text) = 4
    THEN [frontmatter |-> text[2], body |-> text[4]]
    ELSE [frontmatter |-> EmptyFrontmatter, body |-> text[1]]

AllBodies == {EmptyBody} \cup Bodies

\* ------------------------------------------------- storage (local store)
\* The draft store keeps at most one draft per path.
getDraft(ds, p) == ds[p]
saveDraft(ds, p, draft) == [ds EXCEPT ![p] = Some(draft)]
removeDraft(ds, p) == [ds EXCEPT ![p] = Null]

\* ------------------------------------------------- GitHub contents store
\* The version token of a file is the sha of its blob (data.sha of a GET,
\* data.content.sha of a PUT); it is determined by the file's content.
BlobSha(text) == <<"blob", text>>
\* The sha of the commit a PUT creates (data.commit.sha): never a blob sha.
CommitSha(path, text) == <<"commit", path, text>>

VARIABLES
    \* AppState (MobileApp.tsx:31-47)
    screen, creds, loading, error, success, files, currentFile, currentSha,
    body, frontmatter, dirty, showCommit, committing,
    \* environment: local persistence store and remote content store
    \* (repo: the paths of the content files the repository holds)
    repo, storedCreds, drafts, remote,
    \* control state: the mount effect, the pending auto-save timeout, and
    \* the async calls in flight
    booted, timers, commit, opens, loads, login, logout,
    \* history: the handler continuation that ran last, with what it was given
    last,
    \* history: the last edit, and what the user did after it
    watch, watching,
    \* parts of the program followed on their own: a file content on its way
    \* to the store and back, the service worker, a recursive listing
    transfer, worker, listing

appVars == <<screen, creds, loading, error, success, files, currentFile,
             currentSha, body, frontmatter, dirty, showCommit, committing>>
envVars == <<repo, storedCreds, drafts, remote>>
ctlVars == <<booted, timers, commit, opens, loads, login, logout>>
sideVars == <<transfer, worker, listing>>
vars == <<appVars, envVars, ctlVars, last, watch, watching, sideVars>>

\* The repository's files as first seen: a post without a metadata header,
\* a page with one.
InitText(p) ==
    IF p = PostPath THEN <<EmptyBody>>
    ELSE serializeFile({<<"title", NewTitle>>}, EmptyBody)

\* useState initial value (MobileApp.tsx:58-74)
InitialAppState ==
    /\ screen = "login"
    /\ creds = Null
    /\ loading = TRUE
    /\ error = Null
    /\ success = Null
    /\ files = {}
    /\ currentFile = Null
    /\ currentSha = Null
    /\ body = EmptyBody
    /\ frontmatter = EmptyFrontmatter
    /\ dirty = FALSE
    /\ showCommit = FALSE
    /\ committing = FALSE

InitWith(files0, w) ==
    /\ InitialAppState
    /\ watching = w
    /\ repo = files0
    /\ storedCreds \in {Null, Some(TheCreds)}
    /\ drafts = [p \in files0 |-> Null]
    /\ remote = [p \in files0 |-> InitText(p)]
    /\ booted = FALSE
    /\ timers = <<>>
    /\ commit = Null
    /\ opens = <<>>
    /\ loads = 0
    /\ login = Null
    /\ logout = FALSE
    /\ last = <<>>
    /\ watch = Null
    /\ transfer = Null
    /\ worker = Null
    /\ listing = Null

\* a repository with one content file
Init == InitWith({PostPath}, FALSE)

\* a repository with a page and a post
InitTwoFiles == InitWith(Paths, FALSE)

\* a repository with one content file, the last edit watched
InitWatched == InitWith({PostPath}, TRUE)

\* ------------------------------------------------------ auto-save effect
RemoveAt(s, i) == SubSeq(s, 1, i - 1) \o SubSeq(s, i + 1, Len(s))

\* an effect whose cleanup clears nothing
CleanupNothing(ts) == ts

\* the effect's cleanup, `() => clearTimeout(timer)`: the timeout the last
\* run of the effect armed (the one marked owned) is cleared
Cleanup(ts) == SelectSeq(ts, LAMBDA t : ~t.owned)

\* useEffect(..., [state.body, state.frontmatter, state.dirty]), run when a
\* dependency changed: the previous run's cleanup, then a new timeout that
\* captures the rendered state, when a file is open and dirty. `ts` are the
\* pending timeouts.
AutoSaveEffect(ts, file, b, fm, d) ==
    IF file = Null \/ ~d
    THEN Cleanup(ts)
    ELSE Append(Cleanup(ts),
                [path |-> file[1].path, content |-> b, frontmatter |-> fm,
                 owned |-> TRUE])

\* -------------------------------------------------------------- history
\* `watch` follows the last edit while `watching` is set: "fresh" from the
\* edit until a second has passed, "quiet" from then on, "reloaded" once the
\* page was reloaded in that state, "reopened" once the same file was opened
\* again. Anything else the user does ends the watch.
Watching(phase) == watch # Null /\ watch[1].phase = phase
WatchSet(w) ==
    /\ watch' = (IF watching THEN w ELSE watch)
    /\ watching' = watching
    /\ UNCHANGED sideVars
WatchTo(phase) == WatchSet(Some([watch[1] EXCEPT !.phase = phase]))
WatchKeep == WatchSet(watch)
WatchEnd == WatchSet(Null)
WatchEdit(p, field, b, fm) ==
    WatchSet(Some([path |-> p, edited |-> field, body |-> b, frontmatter |-> fm,
                   phase |-> "fresh"]))

\* ------------------------------------------------------------ loadFiles
\* loadFiles(creds): set({loading: true, error: null}) and the two
\* recursive listings issued (MobileApp.tsx:99-103)
LoadFilesStart ==
    /\ loading' = TRUE
    /\ error' = Null
    /\ loads' = loads + 1

\* the content directory a file is in
DirOf(p) == IF p = PagePath THEN PagesDir ELSE PostsDir

\* the files the repository holds under a content directory
FilesUnder(d) == {p \in repo : DirOf(p) = d}

\* listFilesRecursive(..., d): it throws (Null) when the directory does not
\* exist - a repository has no directory without a file - or when the
\* request fails; it returns the directory's files otherwise
Listing(d, failed) ==
    IF d \in failed \/ FilesUnder(d) = {} THEN Null ELSE Some(FilesUnder(d))

\* `.catch(() => [])` on each listing
OrEmpty(r) == IF r = Null THEN {} ELSE r[1]

\* the listings resolved, each with its files or with a failure:
\* set({files: [...pages, ...posts], loading: false})
LoadFilesDone ==
    /\ loads > 0
    /\ loads' = loads - 1
    /\ \E failed \in SUBSET {d \in ContentDirs : FilesUnder(d) # {}} :
          /\ files' = UNION {OrEmpty(Listing(d, failed)) : d \in ContentDirs}
          /\ last' = <<"LoadFilesDone", failed>>
    /\ loading' = FALSE
    /\ UNCHANGED <<screen, creds, error, success, currentFile, currentSha,
                   body, frontmatter, dirty, showCommit, committing>>
    /\ UNCHANGED <<envVars, booted, timers, commit, opens, login, logout>>
    /\ WatchKeep

\* --------------------------------------------------------- mount effect
\* useEffect(..., []): restore saved credentials
MountEffect ==
    /\ ~booted
    /\ booted' = TRUE
    /\ IF storedCreds # Null
       THEN /\ creds' = storedCreds
            /\ screen' = "browser"
            /\ LoadFilesStart
       ELSE /\ loading' = FALSE
            /\ UNCHANGED <<creds, screen, error, loads>>
    /\ UNCHANGED <<success, files, currentFile, currentSha, body, frontmatter,
                   dirty, showCommit, committing>>
    /\ UNCHANGED <<envVars, timers, commit, opens, login, logout>>
    /\ last' = <<>>
    /\ WatchKeep

\* ---------------------------------------------------------------- login
\* handleLogin up to `await validateToken(...)`
HandleLogin ==
    /\ screen = "login"
    /\ ~loading
    /\ login = Null
    /\ loading' = TRUE
    /\ error' = Null
    /\ login' = Some(TheCreds)
    /\ UNCHANGED <<screen, creds, success, files, currentFile, currentSha,
                   body, frontmatter, dirty, showCommit, committing>>
    /\ UNCHANGED <<envVars, booted, timers, commit, opens, loads, logout>>
    /\ last' = <<>>
    /\ WatchEnd

\* a login that persists the credentials before validating them
HandleLoginRejectedAfterSave ==
    /\ login # Null
    /\ login' = Null
    /\ storedCreds' = login
    /\ error' = Some(<<"Invalid token or no access to repo.">>)
    /\ loading' = FALSE
    /\ UNCHANGED <<screen, creds, success, files, currentFile, currentSha,
                   body, frontmatter, dirty, showCommit, committing>>
    /\ UNCHANGED <<repo, drafts, remote, booted, timers, commit, opens, loads, logout>>
    /\ last' = <<"HandleLoginRejected">>
    /\ WatchKeep

\* validateToken resolved false, or threw
HandleLoginRejected ==
    /\ login # Null
    /\ login' = Null
    /\ error' = Some(<<"Invalid token or no access to repo.">>)
    /\ loading' = FALSE
    /\ UNCHANGED <<screen, creds, success, files, currentFile, currentSha,
                   body, frontmatter, dirty, showCommit, committing>>
    /\ UNCHANGED <<envVars, booted, timers, commit, opens, loads, logout>>
    /\ last' = <<"HandleLoginRejected">>
    /\ WatchKeep

\* validateToken resolved true: saveCredentials, set({creds, screen}),
\* loadFiles(creds)
HandleLoginAccepted ==
    /\ login # Null
    /\ login' = Null
    /\ storedCreds' = login
    /\ creds' = login
    /\ screen' = "browser"
    /\ LoadFilesStart
    /\ UNCHANGED <<success, files, currentFile, currentSha, body, frontmatter,
                   dirty, showCommit, committing>>
    /\ UNCHANGED <<repo, drafts, remote, booted, timers, commit, opens, logout>>
    /\ last' = <<"HandleLoginAccepted">>
    /\ WatchKeep

\* --------------------------------------------------------------- logout
\* handleLogout up to `await clearCredentials()` (the Sign out button of the
\* browser header)
HandleLogout ==
    /\ screen = "browser"
    /\ ~logout
    /\ logout' = TRUE
    /\ UNCHANGED <<appVars, envVars, booted, timers, commit, opens, loads, login>>
    /\ last' = <<>>
    /\ WatchEnd

\* clearCredentials resolved: the set({...}) of MobileApp.tsx:138-145, which
\* leaves body, frontmatter, dirty and currentSha as they are
HandleLogoutDone ==
    /\ logout
    /\ logout' = FALSE
    /\ storedCreds' = Null
    /\ screen' = "login"
    /\ creds' = Null
    /\ files' = {}
    /\ currentFile' = Null
    /\ error' = Null
    /\ success' = Null
    /\ UNCHANGED <<loading, currentSha, body, frontmatter, dirty, showCommit, committing>>
    /\ UNCHANGED <<repo, drafts, remote, booted, timers, commit, opens, loads, login>>
    /\ last' = <<"HandleLogoutDone">>
    /\ WatchEnd

\* ------------------------------------------------------------- openFile
\* the remote file as getFile returns it (github.ts:110-115)
getFile(p) == [content |-> remote[p], sha |-> BlobSha(remote[p]), path |-> p]

\* an openFile call in flight: its draft read is pending until
\* `await getDraft(file.path)` resumes, and only then getFile is called
DraftReadPending(o) == o.stage = "getDraft"
RemoteReadIssued(o) == o.stage = "getFile"

\* openFile up to `await getDraft(file.path)`
OpenFile(p) ==
    /\ screen = "browser"
    /\ ~loading
    /\ p \in files
    /\ creds # Null
    /\ loading' = TRUE
    /\ error' = Null
    /\ opens' = Append(opens, [path |-> p, stage |-> "getDraft", draft |-> Null])
    /\ UNCHANGED <<screen, creds, success, files, currentFile, currentSha,
                   body, frontmatter, dirty, showCommit, committing>>
    /\ UNCHANGED <<envVars, booted, timers, commit, loads, login, logout>>
    /\ last' = <<>>
    /\ IF Watching("reloaded") /\ watch[1].path = p THEN WatchKeep ELSE WatchEnd

\* getDraft resolved; getFile issued
OpenFileGetDraft(i) ==
    /\ opens[i].stage = "getDraft"
    /\ opens' = [opens EXCEPT ![i].draft = getDraft(drafts, opens[i].path),
                              ![i].stage = "getFile"]
    /\ UNCHANGED <<appVars, envVars, booted, timers, commit, loads, login, logout>>
    /\ last' = <<>>
    /\ WatchKeep

\* an open that ignores the draft and presents the remote content
PresentedRemote(draft, rf) ==
    [body |-> parseFile(rf.content).body,
     frontmatter |-> parseFile(rf.content).frontmatter,
     dirty |-> draft # Null]

\* an open that marks every session dirty
PresentedDirty(draft, rf) ==
    IF draft # Null /\ draft[1].savedAt > 0
    THEN [body |-> draft[1].content, frontmatter |-> draft[1].frontmatter,
          dirty |-> TRUE]
    ELSE [body |-> parseFile(rf.content).body,
          frontmatter |-> parseFile(rf.content).frontmatter,
          dirty |-> TRUE]

\* what openFile presents: the draft when one was found with savedAt > 0,
\* the parsed remote content otherwise (MobileApp.tsx:162-174)
Presented(draft, rf) ==
    IF draft # Null /\ draft[1].savedAt > 0
    THEN [body |-> draft[1].content, frontmatter |-> draft[1].frontmatter,
          dirty |-> TRUE]
    ELSE [body |-> parseFile(rf.content).body,
          frontmatter |-> parseFile(rf.content).frontmatter,
          dirty |-> FALSE]

\* an open that keeps no baseline when it presents a draft
OpenBaselineOfRemoteOnly(draft, rf) == IF draft # Null THEN Null ELSE rf.sha

\* the baseline openFile records: `currentSha: remote.sha`, in both branches
OpenBaseline(draft, rf) == rf.sha

\* getFile resolved: the set({...}) of MobileApp.tsx:176-186
OpenFileDone(i) ==
    /\ opens[i].stage = "getFile"
    /\ LET rf == getFile(opens[i].path)
           pr == Presented(opens[i].draft, rf)
       IN  /\ screen' = "editor"
           /\ currentFile' = Some(rf)
           /\ currentSha' = OpenBaseline(opens[i].draft, rf)
           /\ body' = pr.body
           /\ frontmatter' = pr.frontmatter
           /\ dirty' = pr.dirty
           /\ loading' = FALSE
           /\ timers' = AutoSaveEffect(timers, Some(rf), pr.body, pr.frontmatter, pr.dirty)
    /\ opens' = RemoveAt(opens, i)
    /\ UNCHANGED <<creds, error, success, files, showCommit, committing>>
    /\ UNCHANGED <<envVars, booted, commit, loads, login, logout>>
    /\ last' = <<"OpenFileDone", opens[i].draft>>
    /\ IF Watching("reloaded") THEN WatchTo("reopened") ELSE WatchEnd

\* an open whose catch shows nothing
OpenErrorSwallowed(p) == Null

\* the message openFile shows for what getFile threw:
\* `Failed to get ${path}: ${res.status}`
OpenError(p) == Some(<<"Failed to get", p>>)

\* getFile threw (github.ts:107, or a transport failure)
OpenFileFailed(i) ==
    /\ opens[i].stage = "getFile"
    /\ error' = OpenError(opens[i].path)
    /\ loading' = FALSE
    /\ opens' = RemoveAt(opens, i)
    /\ UNCHANGED <<screen, creds, success, files, currentFile, currentSha,
                   body, frontmatter, dirty, showCommit, committing>>
    /\ UNCHANGED <<envVars, booted, timers, commit, loads, login, logout>>
    /\ last' = <<"OpenFileFailed", opens[i].path>>
    /\ WatchKeep

\* ----------------------------------------------------------------- edit
\* the editor is rendered, and not covered by the commit dialog's overlay
EditorUsable ==
    /\ screen = "editor"
    /\ currentFile # Null
    /\ ~showCommit

\* onBodyChange: set({body, dirty: true})
OnBodyChange(b) ==
    /\ EditorUsable
    /\ b # body
    /\ body' = b
    /\ dirty' = TRUE
    /\ timers' = AutoSaveEffect(timers, currentFile, b, frontmatter, TRUE)
    /\ UNCHANGED <<screen, creds, loading, error, success, files, currentFile,
                   currentSha, frontmatter, showCommit, committing>>
    /\ UNCHANGED <<envVars, booted, commit, opens, loads, login, logout>>
    /\ last' = <<>>
    /\ WatchEdit(currentFile[1].path, "body", b, frontmatter)

\* FrontmatterForm update(key, value): {...frontmatter, [key]: value}
update(fm, key, value) == {kv \in fm : kv[1] # key} \cup {<<key, value>>}

\* onFrontmatterChange: set({frontmatter: fm, dirty: true})
OnFrontmatterChange(t) ==
    /\ EditorUsable
    /\ <<"title", t>> \notin frontmatter
    /\ frontmatter' = update(frontmatter, "title", t)
    /\ dirty' = TRUE
    /\ timers' = AutoSaveEffect(timers, currentFile, body, frontmatter', TRUE)
    /\ UNCHANGED <<screen, creds, loading, error, success, files, currentFile,
                   currentSha, body, showCommit, committing>>
    /\ UNCHANGED <<envVars, booted, commit, opens, loads, login, logout>>
    /\ last' = <<>>
    /\ WatchEdit(currentFile[1].path, "frontmatter", body, frontmatter')

\* the draft the timeout callback hands to saveDraft (MobileApp.tsx:196-201)
DraftOf(snapshot, now) ==
    [path |-> snapshot.path, content |-> snapshot.content,
     frontmatter |-> snapshot.frontmatter, savedAt |-> now]

\* the 1000 ms timeout fired: saveDraft(path, draft)
AutoSaveFire(i) ==
    /\ drafts' = saveDraft(drafts, timers[i].path, DraftOf(timers[i], Now))
    /\ timers' = RemoveAt(timers, i)
    /\ UNCHANGED <<appVars, repo, storedCreds, remote, booted, commit, opens, loads, login, logout>>
    /\ last' = <<>>
    /\ IF Watching("fresh") THEN WatchTo("quiet") ELSE WatchKeep

\* a second has passed since the last edit, and the timeout that edit armed
\* was cleared before it could fire
QuietSecond ==
    /\ Watching("fresh")
    /\ timers = <<>>
    /\ WatchTo("quiet")
    /\ last' = <<>>
    /\ UNCHANGED <<appVars, envVars, ctlVars>>

\* --------------------------------------------------------------- commit
\* the Publish button of the editor header: set({showCommit: true})
OpenCommitDialog ==
    /\ EditorUsable
    /\ dirty
    /\ showCommit' = TRUE
    /\ UNCHANGED <<screen, creds, loading, error, success, files, currentFile,
                   currentSha, body, frontmatter, dirty, committing>>
    /\ UNCHANGED <<envVars, ctlVars>>
    /\ last' = <<>>
    /\ WatchEnd

\* the dialog's Cancel button or a tap on its overlay, which stay enabled
\* while a commit is in flight
CancelCommitDialog ==
    /\ screen = "editor"
    /\ currentFile # Null
    /\ showCommit
    /\ showCommit' = FALSE
    /\ UNCHANGED <<screen, creds, loading, error, success, files, currentFile,
                   currentSha, body, frontmatter, dirty, committing>>
    /\ UNCHANGED <<envVars, ctlVars>>
    /\ last' = <<>>
    /\ WatchEnd

\* a commit that writes the body without the frontmatter
HandleCommitBodyOnly ==
    /\ screen = "editor"
    /\ currentFile # Null
    /\ showCommit
    /\ ~committing
    /\ creds # Null
    /\ committing' = TRUE
    /\ error' = Null
    /\ commit' = Some([path |-> currentFile[1].path,
                       content |-> serializeFile(EmptyFrontmatter, body),
                       sha |-> currentSha,
                       stage |-> "put",
                       applied |-> FALSE,
                       result |-> Null])
    /\ UNCHANGED <<screen, creds, loading, success, files, currentFile,
                   currentSha, body, frontmatter, dirty, showCommit>>
    /\ UNCHANGED <<envVars, booted, timers, opens, loads, login, logout>>
    /\ last' = <<>>
    /\ WatchEnd

\* handleCommit up to `await putFile(...)`: the request carries the
\* serialized file and state.currentSha
HandleCommit ==
    /\ screen = "editor"
    /\ currentFile # Null
    /\ showCommit
    /\ ~committing
    /\ creds # Null
    /\ committing' = TRUE
    /\ error' = Null
    /\ commit' = Some([path |-> currentFile[1].path,
                       content |-> serializeFile(frontmatter, body),
                       sha |-> currentSha,
                       stage |-> "put",
                       applied |-> FALSE,
                       result |-> Null])
    /\ UNCHANGED <<screen, creds, loading, success, files, currentFile,
                   currentSha, body, frontmatter, dirty, showCommit>>
    /\ UNCHANGED <<envVars, booted, timers, opens, loads, login, logout>>
    /\ last' = <<>>
    /\ WatchEnd

\* a store that takes every PUT
StoreAcceptsAny(p, sha) == TRUE

\* the store's optimistic check of a PUT on an existing file: the request's
\* sha must be the file's current version token
StoreAccepts(p, sha) == sha = BlobSha(remote[p])

\* what putFile returns from the store's response (github.ts:146-150)
putFileResult(p, text) == [sha |-> CommitSha(p, text)]

\* the store handled the PUT
StorePut ==
    /\ commit # Null
    /\ commit[1].stage = "put"
    /\ LET c == commit[1]
       IN  IF StoreAccepts(c.path, c.sha)
           THEN /\ remote' = [remote EXCEPT ![c.path] = c.content]
                /\ commit' = Some([c EXCEPT !.stage = "putOk",
                                            !.applied = TRUE,
                                            !.result = putFileResult(c.path, c.content)])
           ELSE /\ remote' = remote
                /\ commit' = Some([c EXCEPT !.stage = "putFailed",
                                            !.result = IF c.sha = Null THEN "422" ELSE "409"])
    /\ UNCHANGED <<appVars, repo, storedCreds, drafts, booted, timers, opens, loads, login, logout>>
    /\ last' = <<"StorePut">>
    /\ WatchKeep

\* the PUT failed before the store took it: the token was revoked (401), or
\* the transport failed before the request arrived
StoreUnavailable ==
    /\ commit # Null
    /\ commit[1].stage = "put"
    /\ \E status \in {"401", "network"} :
          commit' = Some([commit[1] EXCEPT !.stage = "putFailed", !.result = status])
    /\ UNCHANGED <<appVars, envVars, booted, timers, opens, loads, login, logout>>
    /\ last' = <<>>
    /\ WatchKeep

\* the store took the PUT and wrote the file, and the transport failed
\* before the response reached putFile
StoreResponseLost ==
    /\ commit # Null
    /\ commit[1].stage = "put"
    /\ StoreAccepts(commit[1].path, commit[1].sha)
    /\ remote' = [remote EXCEPT ![commit[1].path] = commit[1].content]
    /\ commit' = Some([commit[1] EXCEPT !.stage = "putFailed",
                                        !.applied = TRUE,
                                        !.result = "network"])
    /\ UNCHANGED <<appVars, repo, storedCreds, drafts, booted, timers, opens, loads, login, logout>>
    /\ last' = <<>>
    /\ WatchKeep

\* putFile resolved: removeDraft(state.currentFile.path) takes effect
HandleCommitRemoveDraft ==
    /\ commit # Null
    /\ commit[1].stage = "putOk"
    /\ drafts' = removeDraft(drafts, commit[1].path)
    /\ commit' = Some([commit[1] EXCEPT !.stage = "removed"])
    /\ UNCHANGED <<appVars, repo, storedCreds, remote, booted, timers, opens, loads, login, logout>>
    /\ last' = <<>>
    /\ WatchKeep

\* the baseline handleCommit keeps after a successful PUT
NewBaseline(result) == result.sha

\* the dirty flag handleCommit sets after a successful PUT
DirtyAfterCommit(c) == FALSE

\* removeDraft resolved: the set({...}) of MobileApp.tsx:225-231
HandleCommitDone ==
    /\ commit # Null
    /\ commit[1].stage = "removed"
    /\ currentSha' = NewBaseline(commit[1].result)
    /\ dirty' = DirtyAfterCommit(commit[1])
    /\ showCommit' = FALSE
    /\ committing' = FALSE
    /\ success' = Some("Committed! Cloudflare will deploy shortly.")
    /\ timers' = IF dirty' # dirty
                 THEN AutoSaveEffect(timers, currentFile, body, frontmatter, dirty')
                 ELSE timers
    /\ commit' = Null
    /\ UNCHANGED <<screen, creds, loading, error, files, currentFile, body,
                   frontmatter>>
    /\ UNCHANGED <<envVars, booted, opens, loads, login, logout>>
    /\ last' = <<"HandleCommitDone", commit[1]>>
    /\ WatchKeep

\* a catch block that swallows the error
SaveErrorSwallowed(c) == Null

\* the message handleCommit shows for what putFile threw: putFile's own
\* `Failed to save ${path}: ${res.status}` (github.ts:144), or the message of
\* the TypeError a failed fetch rejects with
SaveError(c) ==
    Some(IF c.result = "network"
         THEN <<"Failed to fetch">>
         ELSE <<"Failed to save", c.path, c.result>>)

\* a catch block that leaves the committing flag set
HandleCommitCatchStuck ==
    /\ commit # Null
    /\ commit[1].stage = "putFailed"
    /\ error' = SaveError(commit[1])
    /\ commit' = Null
    /\ UNCHANGED <<screen, creds, loading, success, files, currentFile,
                   currentSha, body, frontmatter, dirty, showCommit, committing>>
    /\ UNCHANGED <<envVars, booted, timers, opens, loads, login, logout>>
    /\ last' = <<>>
    /\ WatchKeep

\* a catch block that sends the write again
HandleCommitCatchRetry ==
    /\ commit # Null
    /\ commit[1].stage = "putFailed"
    /\ error' = SaveError(commit[1])
    /\ commit' = IF commit[1].result = "network"
                 THEN Some([commit[1] EXCEPT !.stage = "put", !.result = Null])
                 ELSE Null
    /\ committing' = (commit' # Null)
    /\ UNCHANGED <<screen, creds, loading, success, files, currentFile,
                   currentSha, body, frontmatter, dirty, showCommit>>
    /\ UNCHANGED <<envVars, booted, timers, opens, loads, login, logout>>
    /\ last' = <<"HandleCommitCatch", commit[1]>>
    /\ WatchKeep

\* putFile threw: set({error, committing: false})
HandleCommitCatch ==
    /\ commit # Null
    /\ commit[1].stage = "putFailed"
    /\ error' = SaveError(commit[1])
    /\ committing' = FALSE
    /\ commit' = Null
    /\ UNCHANGED <<screen, creds, loading, success, files, currentFile,
                   currentSha, body, frontmatter, dirty, showCommit>>
    /\ UNCHANGED <<envVars, booted, timers, opens, loads, login, logout>>
    /\ last' = <<"HandleCommitCatch", commit[1]>>
    /\ WatchKeep

\* setTimeout(() => set({success: null}), 5000)
ClearSuccess ==
    /\ success # Null
    /\ success' = Null
    /\ UNCHANGED <<screen, creds, loading, error, files, currentFile, currentSha,
                   body, frontmatter, dirty, showCommit, committing>>
    /\ UNCHANGED <<envVars, ctlVars>>
    /\ last' = <<>>
    /\ WatchKeep

\* --------------------------------------------------------------- goBack
\* a goBack that discards the draft of the file it leaves
GoBackDiscardDraft ==
    /\ EditorUsable
    /\ screen' = "browser"
    /\ currentFile' = Null
    /\ currentSha' = Null
    /\ body' = EmptyBody
    /\ frontmatter' = EmptyFrontmatter
    /\ dirty' = FALSE
    /\ success' = Null
    /\ timers' = AutoSaveEffect(timers, Null, EmptyBody, EmptyFrontmatter, FALSE)
    /\ drafts' = removeDraft(drafts, currentFile[1].path)
    /\ IF creds # Null
       THEN LoadFilesStart
       ELSE error' = Null /\ UNCHANGED <<loading, loads>>
    /\ UNCHANGED <<creds, files, showCommit, committing>>
    /\ UNCHANGED <<repo, storedCreds, remote, booted, commit, opens, login, logout>>
    /\ last' = <<>>
    /\ WatchEnd

GoBack ==
    /\ EditorUsable
    /\ screen' = "browser"
    /\ currentFile' = Null
    /\ currentSha' = Null
    /\ body' = EmptyBody
    /\ frontmatter' = EmptyFrontmatter
    /\ dirty' = FALSE
    /\ success' = Null
    /\ timers' = AutoSaveEffect(timers, Null, EmptyBody, EmptyFrontmatter, FALSE)
    /\ IF creds # Null
       THEN LoadFilesStart
       ELSE error' = Null /\ UNCHANGED <<loading, loads>>
    /\ UNCHANGED <<creds, files, showCommit, committing>>
    /\ UNCHANGED <<envVars, booted, commit, opens, login, logout>>
    /\ last' = <<>>
    /\ WatchEnd

\* ---------------------------------------------------------- environment
\* the text another writer of the repository pushes: a body without a
\* metadata header, which no commit of the editor writes
ExternalText == <<NumBodies>>

\* the files another writer pushes to
ExternalPaths == {PostPath}

\* another writer changes a file of the repository
RemoteChange(p, text) ==
    /\ p \in repo
    /\ text # remote[p]
    /\ remote' = [remote EXCEPT ![p] = text]
    /\ UNCHANGED <<appVars, repo, storedCreds, drafts, ctlVars>>
    /\ last' = <<>>
    /\ WatchKeep

\* the page is reloaded (or the app crashed and is started again): the
\* component state, its timers and its pending continuations are gone, the
\* local store and the remote store stay
Reload ==
    /\ booted
    /\ screen' = "login"
    /\ creds' = Null
    /\ loading' = TRUE
    /\ error' = Null
    /\ success' = Null
    /\ files' = {}
    /\ currentFile' = Null
    /\ currentSha' = Null
    /\ body' = EmptyBody
    /\ frontmatter' = EmptyFrontmatter
    /\ dirty' = FALSE
    /\ showCommit' = FALSE
    /\ committing' = FALSE
    /\ booted' = FALSE
    /\ timers' = <<>>
    /\ commit' = Null
    /\ opens' = <<>>
    /\ loads' = 0
    /\ login' = Null
    /\ logout' = FALSE
    /\ UNCHANGED envVars
    /\ last' = <<>>
    /\ IF Watching("quiet") THEN WatchTo("reloaded") ELSE WatchEnd

Next ==
    \/ MountEffect
    \/ HandleLogin
    \/ HandleLoginRejected
    \/ HandleLoginAccepted
    \/ LoadFilesDone
    \/ \E p \in Paths : OpenFile(p)
    \/ \E i \in 1..Len(opens) : OpenFileGetDraft(i)
    \/ \E i \in 1..Len(opens) : OpenFileDone(i)
    \/ \E i \in 1..Len(opens) : OpenFileFailed(i)
    \/ \E b \in AllBodies : OnBodyChange(b)
    \/ \E t \in Titles : OnFrontmatterChange(t)
    \/ \E i \in 1..Len(timers) : AutoSaveFire(i)
    \/ OpenCommitDialog
    \/ CancelCommitDialog
    \/ HandleCommit
    \/ StorePut
    \/ StoreUnavailable
    \/ StoreResponseLost
    \/ HandleCommitRemoveDraft
    \/ HandleCommitDone
    \/ HandleCommitCatch
    \/ ClearSuccess
    \/ GoBack
    \/ \E p \in ExternalPaths : RemoteChange(p, ExternalText)
    \/ Reload

Spec == Init /\ [][Next]_vars

SpecTwoFiles == InitTwoFiles /\ [][Next]_vars

NextWatched == Next \/ QuietSecond

SpecWatched == InitWatched /\ [][NextWatched]_vars

\* opening, editing and publishing, without the login form, reloads and
\* other writers
NextPublish ==
    \/ MountEffect
    \/ LoadFilesDone
    \/ \E p \in Paths : OpenFile(p)
    \/ \E i \in 1..Len(opens) : OpenFileGetDraft(i)
    \/ \E i \in 1..Len(opens) : OpenFileDone(i)
    \/ \E i \in 1..Len(opens) : OpenFileFailed(i)
    \/ \E b \in AllBodies : OnBodyChange(b)
    \/ \E t \in Titles : OnFrontmatterChange(t)
    \/ \E i \in 1..Len(timers) : AutoSaveFire(i)
    \/ OpenCommitDialog
    \/ CancelCommitDialog
    \/ HandleCommit
    \/ StorePut
    \/ StoreUnavailable
    \/ StoreResponseLost
    \/ HandleCommitRemoveDraft
    \/ HandleCommitDone
    \/ HandleCommitCatch
    \/ GoBack

SpecPublish == Init /\ [][NextPublish]_vars

\* the drafts of two files: opening, editing the body, publishing, with
\* the failures of the store, and signing out
NextDrafts ==
    \/ MountEffect
    \/ LoadFilesDone
    \/ \E p \in Paths : OpenFile(p)
    \/ \E i \in 1..Len(opens) : OpenFileGetDraft(i)
    \/ \E i \in 1..Len(opens) : OpenFileDone(i)
    \/ \E i \in 1..Len(opens) : OpenFileFailed(i)
    \/ \E b \in AllBodies : OnBodyChange(b)
    \/ \E i \in 1..Len(timers) : AutoSaveFire(i)
    \/ OpenCommitDialog
    \/ CancelCommitDialog
    \/ HandleCommit
    \/ StorePut
    \/ StoreUnavailable
    \/ HandleCommitRemoveDraft
    \/ HandleCommitDone
    \/ HandleCommitCatch
    \/ GoBack
    \/ HandleLogout
    \/ HandleLogoutDone

SpecDrafts == InitTwoFiles /\ [][NextDrafts]_vars

\* every call in flight is answered or fails, and every continuation that
\* can run does run: the mount effect, the listings, the validation of a
\* login, the two reads of an open, the PUT of a commit and what follows it
Fairness ==
    /\ WF_vars(MountEffect)
    /\ WF_vars(LoadFilesDone)
    /\ WF_vars(HandleLoginRejected \/ HandleLoginAccepted)
    /\ WF_vars(\E i \in 1..Len(opens) : OpenFileGetDraft(i))
    /\ WF_vars(\E i \in 1..Len(opens) : OpenFileDone(i) \/ OpenFileFailed(i))
    /\ WF_vars(StorePut \/ StoreUnavailable \/ StoreResponseLost)
    /\ WF_vars(HandleCommitRemoveDraft)
    /\ WF_vars(HandleCommitDone)
    /\ WF_vars(HandleCommitCatch)

\* the session of one writer: every action but the write of another writer
NextLive ==
    \/ NextPublish
    \/ HandleLogin
    \/ HandleLoginRejected
    \/ HandleLoginAccepted
    \/ ClearSuccess
    \/ Reload

SpecLive == Init /\ [][NextLive]_vars /\ Fairness

\* the same program with the Sign out button in use
NextLogout == Next \/ HandleLogout \/ HandleLogoutDone

SpecLogout == Init /\ [][NextLogout]_vars

\* signing in and out, browsing, opening and editing, without publishing
NextAccount ==
    \/ MountEffect
    \/ HandleLogin
    \/ HandleLoginRejected
    \/ HandleLoginAccepted
    \/ HandleLogout
    \/ HandleLogoutDone
    \/ LoadFilesDone
    \/ \E p \in Paths : OpenFile(p)
    \/ \E i \in 1..Len(opens) : OpenFileGetDraft(i)
    \/ \E i \in 1..Len(opens) : OpenFileDone(i)
    \/ \E i \in 1..Len(opens) : OpenFileFailed(i)
    \/ \E b \in AllBodies : OnBodyChange(b)
    \/ \E t \in Titles : OnFrontmatterChange(t)
    \/ \E i \in 1..Len(timers) : AutoSaveFire(i)
    \/ GoBack
    \/ Reload

SpecAccount == Init /\ [][NextAccount]_vars

\* ------------------------------------------- content transfer (github.ts)
\* A text is a sequence of UTF-16 code units (here: of the Basic
\* Multilingual Plane, one unit per character): "A", "z", "é", "€".
MaxTextLen == 2
Chars == {65, 122, 233, 8364}
TextsOfLen(n) == [1..n -> Chars]
TransferTexts == UNION {TextsOfLen(n) : n \in 0..MaxTextLen}

RECURSIVE Flatten(_)
Flatten(ss) == IF ss = <<>> THEN <<>> ELSE Head(ss) \o Flatten(Tail(ss))

\* the UTF-8 bytes of a character
Utf8(c) ==
    IF c < 128 THEN <<c>>
    ELSE IF c < 2048 THEN <<192 + (c \div 64), 128 + (c % 64)>>
    ELSE <<224 + (c \div 4096), 128 + ((c \div 64) % 64), 128 + (c % 64)>>

\* unescape(encodeURIComponent(content)): a string with one character per
\* UTF-8 byte of content
BinaryString(text) == Flatten([i \in 1..Len(text) |-> Utf8(text[i])])

\* base64: the digits 0..63, the padding "=", and the line feed of the
\* store's responses
Pad == 64
LineFeed == 65

\* btoa(binary): three bytes to four digits, padded
RECURSIVE btoa(_)
btoa(bytes) ==
    IF Len(bytes) = 0 THEN <<>>
    ELSE IF Len(bytes) = 1
    THEN <<bytes[1] \div 4, (bytes[1] % 4) * 16, Pad, Pad>>
    ELSE IF Len(bytes) = 2
    THEN <<bytes[1] \div 4, (bytes[1] % 4) * 16 + (bytes[2] \div 16),
           (bytes[2] % 16) * 4, Pad>>
    ELSE <<bytes[1] \div 4, (bytes[1] % 4) * 16 + (bytes[2] \div 16),
           (bytes[2] % 16) * 4 + (bytes[3] \div 64), bytes[3] % 64>>
         \o btoa(SubSeq(bytes, 4, Len(bytes)))

\* atob(digits): four digits to three bytes; the result is a string with one
\* character per byte
RECURSIVE atob(_)
atob(digits) ==
    IF Len(digits) < 4 THEN <<>>
    ELSE LET b1 == digits[1] * 4 + (digits[2] \div 16)
             b2 == (digits[2] % 16) * 16 + (digits[3] \div 4)
             b3 == (digits[3] % 4) * 64 + digits[4]
         IN  IF digits[3] = Pad THEN <<b1>>
             ELSE IF digits[4] = Pad THEN <<b1, b2>>
             ELSE <<b1, b2, b3>> \o atob(SubSeq(digits, 5, Len(digits)))

\* getFile's content: atob(data.content.replace(/\n/g, ""))
getFileContent(data) == atob(SelectSeq(data, LAMBDA d : d # LineFeed))

\* putFile's body.content: btoa(unescape(encodeURIComponent(content)))
putFileContent(content) == btoa(BinaryString(content))

\* the store keeps the bytes the request's base64 stands for, and answers a
\* read with their base64, broken into lines
StoreBytes(content) == atob(content)
StoreResponse(bytes) == btoa(bytes) \o <<LineFeed>>

InitTransfer ==
    /\ InitialAppState
    /\ watching = FALSE
    /\ repo = {PostPath}
    /\ storedCreds = Null
    /\ drafts = [p \in {PostPath} |-> Null]
    /\ remote = [p \in {PostPath} |-> InitText(p)]
    /\ booted = FALSE
    /\ timers = <<>>
    /\ commit = Null
    /\ opens = <<>>
    /\ loads = 0
    /\ login = Null
    /\ logout = FALSE
    /\ last = <<>>
    /\ watch = Null
    /\ worker = Null
    /\ listing = Null
    /\ \E t \in TransferTexts :
          transfer = [stage |-> "text", written |-> t, data |-> <<>>]

TransferStep(from, to, data) ==
    /\ transfer.stage = from
    /\ transfer' = [transfer EXCEPT !.stage = to, !.data = data]
    /\ UNCHANGED <<appVars, envVars, ctlVars, last, watch, watching, worker, listing>>

\* putFile builds the request body
PutFileEncode == TransferStep("text", "request", putFileContent(transfer.written))
\* the store writes the file
StoreWrite == TransferStep("request", "stored", StoreBytes(transfer.data))
\* the store answers a later read of the file
StoreRead == TransferStep("stored", "response", StoreResponse(transfer.data))
\* getFile decodes the response
GetFileDecode == TransferStep("response", "read", getFileContent(transfer.data))

NextTransfer == PutFileEncode \/ StoreWrite \/ StoreRead \/ GetFileDecode

SpecTransfer == InitTransfer /\ [][NextTransfer]_vars
\* ------------------------------------------------------------------
\* The service worker (src/unnamed/part_000).  A pathname is a sequence of
\* pieces of text, so that startsWith is computed and "/mobilex" differs
\* from "/mobile/x".

CACHE_NAME == "loomwork-mobile-v1"
OldCacheName == "loomwork-mobile-v0"
MobilePath == <<"/mobile">>
ShellPrefix == <<"/mobile", "/">>
SHELL_URLS == {ShellPrefix}
Pathnames == {MobilePath, ShellPrefix, <<"/mobile", "/", "edit">>,
              <<"/mobile", "x">>, <<"/api">>}
Modes == {"navigate", "cors"}
Requests == [mode : Modes, pathname : Pathnames]
MaxEvents == 2
\* the page the network serves, before and after a deployment
FirstPage == "page-1"
SecondPage == "page-2"
Pages == {FirstPage, SecondPage}

startsWith(s, prefix) ==
    /\ Len(s) >= Len(prefix)
    /\ SubSeq(s, 1, Len(prefix)) = prefix

\* every navigation is taken for a navigation of the shell
IsNavigation(r) == r.mode = "navigate"

\* the condition of the fetch listener
IsShellNavigation(r) ==
    /\ r.mode = "navigate"
    /\ (r.pathname = MobilePath \/ startsWith(r.pathname, ShellPrefix))

EmptyCache == [p \in Pathnames |-> Null]

\* caches.match(request): the first cache of the storage that holds it
CachesMatch(caches, r) ==
    IF \E n \in DOMAIN caches : caches[n][r.pathname] # Null
    THEN LET n == IF OldCacheName \in DOMAIN caches
                     /\ caches[OldCacheName][r.pathname] # Null
                  THEN OldCacheName ELSE CACHE_NAME
         IN  caches[n][r.pathname]
    ELSE Null

\* caches.open(name), which creates the cache when it is missing
CachesOpen(caches, name) ==
    IF name \in DOMAIN caches THEN caches
    ELSE [n \in DOMAIN caches \cup {name} |->
             IF n = name THEN EmptyCache ELSE caches[n]]

\* cache.put(request, response) into the cache `name`
CachePutInto(caches, name, r, response) ==
    [CachesOpen(caches, name) EXCEPT ![name][r.pathname] = response]

InitWorker ==
    /\ InitialAppState
    /\ watching = FALSE
    /\ repo = {PostPath}
    /\ storedCreds = Null
    /\ drafts = [p \in {PostPath} |-> Null]
    /\ remote = [p \in {PostPath} |-> InitText(p)]
    /\ booted = FALSE
    /\ timers = <<>>
    /\ commit = Null
    /\ opens = <<>>
    /\ loads = 0
    /\ login = Null
    /\ logout = FALSE
    /\ last = <<>>
    /\ watch = Null
    /\ transfer = Null
    /\ listing = Null
    /\ \E old \in BOOLEAN, v \in Pages :
          worker = [state |-> "parsed",
                    caches |-> IF old
                               THEN [n \in {OldCacheName} |->
                                        [EmptyCache EXCEPT ![ShellPrefix] = Some(v)]]
                               ELSE [n \in {} |-> EmptyCache],
                    served |-> v,
                    events |-> <<>>]

WorkerStep(w) ==
    /\ worker' = w
    /\ UNCHANGED <<appVars, envVars, ctlVars, last, watch, watching, transfer, listing>>

\* install: cache.addAll(SHELL_URLS) fetches the shell and stores it
Install ==
    /\ worker.state = "parsed"
    /\ WorkerStep([worker EXCEPT
          !.state = "installed",
          !.caches = CachePutInto(worker.caches, CACHE_NAME,
                                  [mode |-> "cors", pathname |-> ShellPrefix],
                                  Some(worker.served))])

\* activate: every cache but CACHE_NAME is deleted
Activate ==
    /\ worker.state = "installed"
    /\ WorkerStep([worker EXCEPT
          !.state = "activated",
          !.caches = [n \in DOMAIN worker.caches \cap {CACHE_NAME} |->
                         worker.caches[n]]])

\* the site is deployed again: the network serves a newer page
Deploy ==
    /\ worker.served = FirstPage
    /\ WorkerStep([worker EXCEPT !.served = SecondPage])

\* a fetch event: respondWith is called for a navigation of the shell only
FetchEvent(r) ==
    /\ worker.state = "activated"
    /\ Len(worker.events) < MaxEvents
    /\ WorkerStep([worker EXCEPT !.events = Append(worker.events,
          [request |-> r,
           stage |-> IF IsShellNavigation(r) THEN "match" ELSE "passthrough",
           cached |-> Null,
           response |-> Null,
           answer |-> Null])])

\* caches.match(event.request) resolves; fetch(event.request) is issued and
\* the event is answered with `cached || fetched`
MatchResolved(i) ==
    /\ i \in DOMAIN worker.events
    /\ worker.events[i].stage = "match"
    /\ LET cached == CachesMatch(worker.caches, worker.events[i].request)
       IN  WorkerStep([worker EXCEPT
              !.events[i].stage = "fetch",
              !.events[i].cached = cached,
              !.events[i].answer = IF cached # Null
                                   THEN <<"cache", cached[1]>> ELSE Null])

\* the handler's fetch resolves: the event is answered with the response
\* unless the cached one answered it already
FetchResolved(i) ==
    /\ i \in DOMAIN worker.events
    /\ worker.events[i].stage = "fetch"
    /\ LET e == worker.events[i]
       IN  WorkerStep([worker EXCEPT
              !.events[i].stage = "put",
              !.events[i].response = Some(worker.served),
              !.events[i].answer = IF e.answer = Null
                                   THEN <<"network", worker.served>>
                                   ELSE e.answer])

\* the network is unreachable: the handler's fetch rejects and nothing is
\* put, the event is over
FetchRejected(i) ==
    /\ i \in DOMAIN worker.events
    /\ worker.events[i].stage = "fetch"
    /\ WorkerStep([worker EXCEPT !.events = RemoveAt(worker.events, i)])

\* caches.open(CACHE_NAME).then(cache => cache.put(event.request, clone)),
\* after which the event is over
CachePut(i) ==
    /\ i \in DOMAIN worker.events
    /\ worker.events[i].stage = "put"
    /\ WorkerStep([worker EXCEPT
          !.events = RemoveAt(worker.events, i),
          !.caches = CachePutInto(worker.caches, CACHE_NAME,
                                  worker.events[i].request,
                                  worker.events[i].response)])

\* an event the worker did not respond to is served by the browser, from
\* the network or not at all
PassThrough(i) ==
    /\ i \in DOMAIN worker.events
    /\ worker.events[i].stage = "passthrough"
    /\ WorkerStep([worker EXCEPT !.events = RemoveAt(worker.events, i)])

NextWorker ==
    \/ Install
    \/ Activate
    \/ Deploy
    \/ \E r \in Requests : FetchEvent(r)
    \/ \E i \in 1..MaxEvents : MatchResolved(i)
    \/ \E i \in 1..MaxEvents : FetchResolved(i)
    \/ \E i \in 1..MaxEvents : FetchRejected(i)
    \/ \E i \in 1..MaxEvents : CachePut(i)
    \/ \E i \in 1..MaxEvents : PassThrough(i)

SpecWorker == InitWorker /\ [][NextWorker]_vars

\* ------------------------------------------------------------------
\* listFiles and listFilesRecursive (github.ts).  The repository is a set of
\* entries [path, type]; a path is the sequence of the names that lead to
\* the entry, the root of the repository being the empty path.

MaxDepth == 2
FileName == "a.mdx"
OtherFileName == "b.mdx"
LinkName == "link"
DirName == "sub"
\* the names a directory can hold, in the order the store lists them
EntryNames == <<FileName, OtherFileName, LinkName, DirName>>
RepoRoot == <<>>

Entry(path, type) == [path |-> path, type |-> type]

\* the entries a directory itself can hold, besides a subdirectory
PlainEntries(dir) ==
    {Entry(Append(dir, FileName), "file"),
     Entry(Append(dir, OtherFileName), "file"),
     Entry(Append(dir, LinkName), "symlink")}

\* the trees of depth d or less under the directory dir
RECURSIVE TreesAt(_, _)
TreesAt(dir, d) ==
    LET subPath == Append(dir, DirName)
        subTrees == IF d = 0 THEN {{}}
                    ELSE {{}} \cup {{Entry(subPath, "dir")} \cup t :
                                       t \in TreesAt(subPath, d - 1)}
    IN  {fs \cup sub : fs \in SUBSET PlainEntries(dir), sub \in subTrees}

Trees == TreesAt(RepoRoot, MaxDepth)
\* the paths listFilesRecursive is called with: the root, a directory that
\* may be missing, and a path that may be a file
ListedPaths == {RepoRoot, <<DirName>>, <<FileName>>}

HasEntry(tree, path) == \E n \in tree : n.path = path
EntryAt(tree, path) == CHOOSE n \in tree : n.path = path

\* listFiles: Null when the response is not ok, no entry when the response
\* is not an array, the entries of the directory otherwise
listFiles(tree, path) ==
    IF path # RepoRoot /\ ~HasEntry(tree, path) THEN Null
    ELSE IF path # RepoRoot /\ EntryAt(tree, path).type # "dir" THEN Some(<<>>)
    ELSE LET all == [i \in 1..Len(EntryNames) |-> Append(path, EntryNames[i])]
             found == SelectSeq(all, LAMBDA p : HasEntry(tree, p))
         IN  Some([i \in 1..Len(found) |-> EntryAt(tree, found[i])])

InitListing ==
    /\ InitialAppState
    /\ watching = FALSE
    /\ repo = {PostPath}
    /\ storedCreds = Null
    /\ drafts = [p \in {PostPath} |-> Null]
    /\ remote = [p \in {PostPath} |-> InitText(p)]
    /\ booted = FALSE
    /\ timers = <<>>
    /\ commit = Null
    /\ opens = <<>>
    /\ loads = 0
    /\ login = Null
    /\ logout = FALSE
    /\ last = <<>>
    /\ watch = Null
    /\ transfer = Null
    /\ worker = Null
    /\ \E tree \in Trees, path \in ListedPaths :
          listing = [tree |-> tree,
                     path |-> path,
                     pending |-> Some(path),
                     stack |-> <<>>,
                     stage |-> "running",
                     result |-> <<>>]

ListingStep(l) ==
    /\ listing.stage = "running"
    /\ listing' = l
    /\ UNCHANGED <<appVars, envVars, ctlVars, last, watch, watching, transfer, worker>>

\* the frame of the innermost call of listFilesRecursive
Top == listing.stack[Len(listing.stack)]
SetTop(frame) == [listing.stack EXCEPT ![Len(listing.stack)] = frame]
Looping == listing.pending = Null /\ listing.stack # <<>>

\* `await listFiles(...)` resolves: the loop of the call starts
ListFilesResolved ==
    /\ listing.pending # Null
    /\ listFiles(listing.tree, listing.pending[1]) # Null
    /\ ListingStep([listing EXCEPT
          !.pending = Null,
          !.stack = Append(listing.stack,
                [items |-> listFiles(listing.tree, listing.pending[1])[1],
                 results |-> <<>>])])

\* `await listFiles(...)` throws, the response is not ok or the network is
\* unreachable: every call in progress rejects
ListFilesRejected ==
    /\ listing.pending # Null
    /\ ListingStep([listing EXCEPT
          !.pending = Null, !.stack = <<>>, !.stage = "failed"])

\* item.type === "file": results.push(item)
PushFile ==
    /\ Looping
    /\ Top.items # <<>>
    /\ Head(Top.items).type = "file"
    /\ ListingStep([listing EXCEPT !.stack = SetTop(
          [items |-> Tail(Top.items),
           results |-> Append(Top.results, Head(Top.items))])])

\* a directory is passed over
DescendNot ==
    /\ Looping
    /\ Top.items # <<>>
    /\ Head(Top.items).type = "dir"
    /\ ListingStep([listing EXCEPT !.stack = SetTop(
          [items |-> Tail(Top.items), results |-> Top.results])])

\* item.type === "dir": listFilesRecursive(..., item.path) is called
Descend ==
    /\ Looping
    /\ Top.items # <<>>
    /\ Head(Top.items).type = "dir"
    /\ ListingStep([listing EXCEPT
          !.pending = Some(Head(Top.items).path),
          !.stack = SetTop([items |-> Tail(Top.items), results |-> Top.results])])

\* any other type: the item is passed over
SkipItem ==
    /\ Looping
    /\ Top.items # <<>>
    /\ Head(Top.items).type \notin {"file", "dir"}
    /\ ListingStep([listing EXCEPT !.stack = SetTop(
          [items |-> Tail(Top.items), results |-> Top.results])])

\* `return results`: the caller pushes the children, the outermost call
\* resolves
ReturnResults ==
    /\ Looping
    /\ Top.items = <<>>
    /\ LET n == Len(listing.stack)
       IN  IF n = 1
           THEN ListingStep([listing EXCEPT
                    !.stack = <<>>, !.stage = "returned", !.result = Top.results])
           ELSE ListingStep([listing EXCEPT
                    !.stack = [i \in 1..(n - 1) |->
                                  IF i = n - 1
                                  THEN [listing.stack[i] EXCEPT
                                           !.results = listing.stack[i].results
                                                       \o Top.results]
                                  ELSE listing.stack[i]]])

NextListing ==
    \/ ListFilesResolved
    \/ ListFilesRejected
    \/ PushFile
    \/ Descend
    \/ SkipItem
    \/ ReturnResults

SpecListing == InitListing /\ [][NextListing]_vars /\ WF_vars(NextListing)


\* =============================================================== claims

\* C1: once handleCommit has completed after the store accepted the write,
\* dirty is false, no draft is stored for the committed path, and currentSha
\* is the version token the store assigned to the written file.
C1_CommitCompleted ==
    (last # <<>> /\ last[1] = "HandleCommitDone") =>
        /\ ~dirty
        /\ getDraft(drafts, last[2].path) = Null
        /\ currentSha = BlobSha(last[2].content)

\* C2: a PUT that carries a version token other than the file's current one
\* is never accepted and leaves the store's content as it is, the store
\* answers it with a conflict (409), and the catch of that conflict shows
\* the error and leaves dirty and the drafts unchanged.
C2_StaleCommitRejected ==
    [][ /\ ( /\ commit # Null
             /\ commit[1].stage = "put"
             /\ commit[1].sha # Null
             /\ commit[1].sha # BlobSha(remote[commit[1].path])
             /\ commit' # commit
             /\ booted' ) =>
                /\ commit' # Null
                /\ commit'[1].stage = "putFailed"
                /\ (last' = <<"StorePut">> => commit'[1].result = "409")
                /\ remote' = remote
        /\ ( /\ commit # Null
             /\ commit[1].stage = "putFailed"
             /\ commit[1].result = "409"
             /\ commit' # commit
             /\ booted' ) =>
                /\ error' = Some(<<"Failed to save", commit[1].path, "409">>)
                /\ dirty' = dirty
                /\ drafts' = drafts
                /\ remote' = remote
      ]_vars

\* C2 witness: the file changed in the store after it was opened and edited,
\* the commit was answered with a conflict, and the session is still dirty
\* with its draft in place.
C2_Witness ==
    /\ last # <<>> /\ last[1] = "HandleCommitCatch"
    /\ last[2].sha = BlobSha(InitText(PostPath))
    /\ remote[PostPath] = ExternalText
    /\ error = Some(<<"Failed to save", PostPath, "409">>)
    /\ dirty
    /\ getDraft(drafts, PostPath) # Null

\* C3: when openFile completes for a path whose draft (savedAt > 0) it found,
\* dirty is true and body and frontmatter are the draft's, whatever the
\* remote content is.
C3_DraftWins ==
    (last # <<>> /\ last[1] = "OpenFileDone" /\ last[2] # Null
        /\ last[2][1].savedAt > 0) =>
            /\ dirty
            /\ body = last[2][1].content
            /\ frontmatter = last[2][1].frontmatter

\* C3 witness: a file was opened from its draft while the remote content,
\* changed since the draft was saved, parses to something else.
C3_Witness ==
    /\ last # <<>> /\ last[1] = "OpenFileDone" /\ last[2] # Null
    /\ dirty
    /\ currentFile[1].content = ExternalText
    /\ body # parseFile(currentFile[1].content).body
    /\ frontmatter # parseFile(currentFile[1].content).frontmatter

\* C4: when openFile completes for a path for which it found no draft, dirty
\* is false and body and frontmatter are the parse of the remote content
\* getFile returned.
C4_CleanOpen ==
    (last = <<"OpenFileDone", Null>>) =>
        /\ ~dirty
        /\ body = parseFile(currentFile[1].content).body
        /\ frontmatter = parseFile(currentFile[1].content).frontmatter
        /\ currentFile[1].content = remote[currentFile[1].path]

\* C4 witness: a file with a metadata header and a non-empty body, committed
\* earlier, was opened without a draft.
C4_Witness ==
    /\ last = <<"OpenFileDone", Null>>
    /\ ~dirty
    /\ frontmatter # EmptyFrontmatter
    /\ body # EmptyBody

\* C5: when a second has passed since the last edit of the open file, with
\* nothing else done by the user in between, the draft store holds under
\* that file's path the body and frontmatter of that edit.
C5_DraftAfterQuietSecond ==
    [][ ( /\ watch # Null
          /\ watch[1].phase = "fresh"
          /\ watch' # Null
          /\ watch'[1].phase = "quiet" ) =>
            LET d == getDraft(drafts', watch[1].path)
            IN  /\ d # Null
                /\ d[1].path = watch[1].path
                /\ d[1].content = watch[1].body
                /\ d[1].frontmatter = watch[1].frontmatter
      ]_vars

\* C6 (as stated): the catch of a failed commit, whatever the failure, shows
\* an error and leaves dirty, the drafts, body, frontmatter and currentSha
\* unchanged, and the store's content was not changed by the attempt.
C6_NothingChangedOnFailure ==
    [][ ( /\ commit # Null
          /\ commit[1].stage = "putFailed"
          /\ commit' # commit
          /\ booted' ) =>
            /\ error' # Null
            /\ dirty' = dirty
            /\ drafts' = drafts
            /\ body' = body
            /\ frontmatter' = frontmatter
            /\ currentSha' = currentSha
            /\ remote' = remote
            /\ ~commit[1].applied
      ]_vars

\* C6 (amended): the catch of a failed commit, whatever the failure, shows
\* the error and leaves dirty, the drafts, body, frontmatter, currentSha and
\* the store's content unchanged; and a PUT that fails with an answer of the
\* store (a conflict, an auth failure) leaves the store's content unchanged.
\* Only a PUT that fails on the network may have been written.
C6_SessionUnchangedOnFailure ==
    [][ /\ ( /\ commit # Null
             /\ commit[1].stage = "putFailed"
             /\ commit' # commit
             /\ booted' ) =>
                /\ error' = Some(IF commit[1].result = "network"
                                  THEN <<"Failed to fetch">>
                                  ELSE <<"Failed to save", commit[1].path,
                                         commit[1].result>>)
                /\ dirty' = dirty
                /\ drafts' = drafts
                /\ body' = body
                /\ frontmatter' = frontmatter
                /\ currentSha' = currentSha
                /\ remote' = remote
        /\ ( /\ commit # Null
             /\ commit[1].stage = "put"
             /\ commit' # Null
             /\ commit'[1].stage = "putFailed"
             /\ commit'[1].result # "network" ) =>
                /\ remote' = remote
                /\ ~commit'[1].applied
      ]_vars

\* C6 witness: a commit failed on a lost response: the error is shown, the
\* session is dirty with its draft in place and its baseline is the token
\* it opened with, and the store holds the content the commit sent.
C6_Witness ==
    /\ last # <<>> /\ last[1] = "HandleCommitCatch"
    /\ last[2].result = "network"
    /\ error = Some(<<"Failed to fetch">>)
    /\ dirty
    /\ getDraft(drafts, last[2].path) # Null
    /\ currentSha = last[2].sha
    /\ remote[last[2].path] = last[2].content
    /\ remote[last[2].path] # InitText(last[2].path)

\* C7: once handleCommit has completed for the file still open, and nobody
\* else has written the file since, the baseline the session holds for its
\* next commit is the store's current version token of that file.
C7_BaselineIsCurrentToken ==
    ( /\ last # <<>> /\ last[1] = "HandleCommitDone"
      /\ currentFile # Null
      /\ currentFile[1].path = last[2].path
      /\ remote[last[2].path] = last[2].content ) =>
        currentSha = getFile(last[2].path).sha

\* C8: a file was opened, its body edited to B, a second passed with
\* nothing else done, the page was reloaded and the file opened again: the
\* editor shows body B and dirty is true.
C8_CrashRecovery ==
    ( /\ watch # Null
      /\ watch[1].phase = "reopened"
      /\ watch[1].edited = "body" ) =>
        /\ body = watch[1].body
        /\ dirty

\* C9: at most one auto-save timeout is pending, and a pending timeout
\* holds the body and frontmatter of the most recent edit (the editor's
\* current ones) under the open file's path.
C9_OnePendingAutoSave ==
    /\ Len(timers) <= 1
    /\ \A i \in 1..Len(timers) :
        /\ timers[i].content = body
        /\ timers[i].frontmatter = frontmatter
        /\ (currentFile # Null => timers[i].path = currentFile[1].path)

\* C9 witness: an auto-save wrote an edit, a later edit changed both body
\* and frontmatter, and the one pending timeout holds the later edit.
C9_Witness ==
    /\ Len(timers) = 1
    /\ getDraft(drafts, timers[1].path) # Null
    /\ getDraft(drafts, timers[1].path)[1].content # timers[1].content
    /\ getDraft(drafts, timers[1].path)[1].frontmatter # timers[1].frontmatter
    /\ timers[1].content = body

\* C10: when a commit completes after the user's last action was an edit
\* that left the editor with content other than what the commit wrote,
\* dirty is true.
C10_EditedImpliesDirty ==
    ( /\ last # <<>> /\ last[1] = "HandleCommitDone"
      /\ watch # Null
      /\ watch[1].phase \in {"fresh", "quiet"}
      /\ serializeFile(frontmatter, body) # last[2].content ) =>
        dirty

\* C11: a pending auto-save timeout goes away only by firing, which writes
\* its edit to the draft store under its file's path, by a later edit, which
\* arms a new one, or by the completion of a commit that wrote that edit;
\* so also when the user leaves the editor within the second.
C11_EditReachesDraftStore ==
    [][ ( /\ timers # <<>>
          /\ timers' = <<>>
          /\ booted' ) =>
            \/ getDraft(drafts', timers[1].path) = Some(DraftOf(timers[1], Now))
            \/ /\ last' # <<>>
               /\ last'[1] = "HandleCommitDone"
               /\ last'[2].path = timers[1].path
               /\ last'[2].content =
                      serializeFile(timers[1].frontmatter, timers[1].content)
      ]_vars

\* C12: when openFile completes, currentSha is the version token of the
\* remote file it read, which is the store's token of that file at that
\* moment, whether the draft or the remote content is presented.
C12_OpenRecordsBaseline ==
    (last # <<>> /\ last[1] = "OpenFileDone") =>
        /\ currentSha = currentFile[1].sha
        /\ currentSha = BlobSha(remote[currentFile[1].path])

\* C12 witness: a draft was presented, and the baseline is the token of the
\* remote file as another writer left it.
C12_Witness ==
    /\ last # <<>> /\ last[1] = "OpenFileDone" /\ last[2] # Null
    /\ dirty
    /\ remote[currentFile[1].path] = ExternalText
    /\ currentSha = BlobSha(ExternalText)

\* C13: the remote read of an open is issued without waiting for its draft
\* read: no open in flight has its draft read pending and its remote read
\* not yet issued.
C13_ReadsIssuedTogether ==
    \A i \in 1..Len(opens) :
        DraftReadPending(opens[i]) => RemoteReadIssued(opens[i])

\* C14: credentials are persisted only by a login whose validation
\* succeeded, and the session's credentials are the persisted ones: after a
\* rejected login nothing is persisted, creds is null, the error is shown
\* and the login screen stays; after a login that was accepted the persisted
\* credentials are the session's; after a logout the persisted credentials
\* are gone and creds is null.
C14_CredentialsLifecycle ==
    /\ (creds # Null => storedCreds = creds)
    /\ (last = <<"HandleLoginRejected">> =>
            /\ storedCreds = Null
            /\ creds = Null
            /\ screen = "login"
            /\ error # Null)
    /\ (last = <<"HandleLoginAccepted">> =>
            /\ storedCreds = Some(TheCreds)
            /\ creds = Some(TheCreds))
    /\ (last = <<"HandleLogoutDone">> =>
            /\ storedCreds = Null
            /\ creds = Null
            /\ screen = "login")

\* C14 witness: after a logout that followed a session with a draft saved,
\* a login was rejected: nothing is persisted, the draft is still there.
C14_Witness ==
    /\ last = <<"HandleLoginRejected">>
    /\ storedCreds = Null
    /\ creds = Null
    /\ getDraft(drafts, PostPath) # Null

\* C15: when the listings resolve, a directory that does not exist (or
\* whose listing failed) contributes no file, the files of the other
\* directory are listed, and no error is reported; when the read of an open
\* fails, the error is shown, the screen stays, and currentFile, body,
\* frontmatter, dirty and currentSha are unchanged.
C15_MissingPath ==
    [][ /\ ( /\ last' # <<>>
             /\ last'[1] = "LoadFilesDone" ) =>
                /\ error' = error
                /\ ~loading'
                /\ files' = {p \in repo : DirOf(p) \notin last'[2]}
        /\ ( /\ last' # <<>>
             /\ last'[1] = "OpenFileFailed" ) =>
                /\ error' = Some(<<"Failed to get", last'[2]>>)
                /\ ~loading'
                /\ screen' = screen
                /\ screen' # "editor"
                /\ currentFile' = currentFile
                /\ body' = body
                /\ frontmatter' = frontmatter
                /\ dirty' = dirty
                /\ currentSha' = currentSha
      ]_vars

\* C15 witness: the pages directory does not exist, the file list was
\* loaded without an error, and the read of an open failed: the error is
\* shown on the browser screen.
C15_Witness ==
    /\ last = <<"OpenFileFailed", PostPath>>
    /\ FilesUnder(PagesDir) = {}
    /\ files = {PostPath}
    /\ screen = "browser"
    /\ currentFile = Null
    /\ error = Some(<<"Failed to get", PostPath>>)

\* C16: a loading or committing flag that is set is eventually cleared
\* (unless the page is reloaded first); and right after a failed login, a
\* failed open or a failed commit the flag of that operation is clear and
\* the user can go on: log in again, open the file again, publish again
\* from the dialog, or leave the editor.
C16_Recoverable ==
    /\ [](loading => <>(~loading \/ ~booted))
    /\ [](committing => <>(~committing \/ ~booted))
    /\ [](last = <<"HandleLoginRejected">> => (~loading /\ ENABLED HandleLogin))
    /\ []((last # <<>> /\ last[1] = "OpenFileFailed") =>
            (~loading /\ ENABLED OpenFile(last[2])))
    /\ []((last # <<>> /\ last[1] = "HandleCommitCatch") =>
            /\ ~committing
            /\ (currentFile # Null /\ showCommit) => ENABLED HandleCommit
            /\ (currentFile # Null /\ ~showCommit) => ENABLED GoBack)

\* C16 witness: a commit failed on a conflict; the dialog is still open,
\* nothing is loading or committing, and the session holds the edit.
C16_Witness ==
    /\ last # <<>> /\ last[1] = "HandleCommitCatch"
    /\ last[2].result = "409"
    /\ showCommit
    /\ ~committing
    /\ ~loading
    /\ dirty

\* C17: the content getFile returns for a file is the content putFile wrote
\* to it.
C17_TransferRoundTrip ==
    (transfer # Null /\ transfer.stage = "read") =>
        transfer.data = transfer.written

C19_OfflineShell ==
    [][ LET InShell(r) == r.pathname \in {MobilePath, ShellPrefix,
                                          <<"/mobile", "/", "edit">>}
            Shell(r) == r.mode = "navigate" /\ InShell(r)
        IN  /\ \A i \in DOMAIN worker'.events :
                  LET e == worker'.events[i]
                  IN  /\ (Shell(e.request) /\ e.stage # "match"
                          /\ CachesMatch(worker.caches, e.request) # Null
                          /\ Len(worker'.events) = Len(worker.events)
                          /\ worker.events[i].stage = "match")
                         => e.answer = <<"cache",
                                CachesMatch(worker.caches, e.request)[1]>>
                      /\ ~Shell(e.request) =>
                            /\ e.stage = "passthrough"
                            /\ e.cached = Null
                            /\ e.answer # Null => e.answer[1] # "cache"
            /\ worker'.caches # worker.caches =>
                  \/ worker.state = "parsed"
                  \/ worker.state = "installed"
                     /\ \A n \in DOMAIN worker'.caches :
                           worker'.caches[n] = worker.caches[n]
                  \/ \E i \in DOMAIN worker.events :
                        /\ Shell(worker.events[i].request)
                        /\ worker.events[i].stage = "put"
                        /\ worker'.caches =
                              CachePutInto(worker.caches, CACHE_NAME,
                                           worker.events[i].request,
                                           worker.events[i].response)
      ]_vars

\* C19 witness: a navigation to /mobile/ was answered from the cache while
\* the network serves a newer page, and a request for /mobile/ that is not a
\* navigation was left to the network.
C19_Witness ==
    /\ worker # Null
    /\ Len(worker.events) = 2
    /\ worker.events[1].request = [mode |-> "navigate", pathname |-> ShellPrefix]
    /\ worker.events[1].stage = "fetch"
    /\ worker.events[1].answer = <<"cache", FirstPage>>
    /\ worker.served = SecondPage
    /\ worker.events[2].request = [mode |-> "cors", pathname |-> ShellPrefix]
    /\ worker.events[2].stage = "passthrough"
    /\ worker.events[2].answer = Null

\* C20: when listFilesRecursive returns, its result holds every entry of type
\* file that lies under the listed path at any depth, each once, and nothing
\* else, so no directory entry; and every call comes to an end, returning or
\* rejecting.
C20_RecursiveListing ==
    /\ [](listing.stage = "returned" =>
            LET under == {n \in listing.tree :
                             /\ Len(n.path) > Len(listing.path)
                             /\ startsWith(n.path, listing.path)}
                fileEntries == {n \in under : n.type = "file"}
                result == listing.result
            IN  /\ {result[i] : i \in DOMAIN result} = fileEntries
                /\ Len(result) = Cardinality(fileEntries)
                /\ \A i \in DOMAIN result : result[i].type # "dir")
    /\ <>(listing.stage \in {"returned", "failed"})

\* C20 witness: the listing of the root returned the files of the root and
\* of two levels of subdirectories, next to entries that are not files.
C20_Witness ==
    /\ listing # Null
    /\ listing.stage = "returned"
    /\ listing.path = RepoRoot
    /\ Entry(<<DirName, DirName>>, "dir") \in listing.tree
    /\ Entry(<<LinkName>>, "symlink") \in listing.tree
    /\ Entry(<<FileName>>, "file") \in listing.tree
    /\ Entry(<<DirName, DirName, OtherFileName>>, "file") \in
          {listing.result[i] : i \in DOMAIN listing.result}
    /\ Len(listing.result) = 3

\* C21: a write request comes into being only when the user confirms the
\* commit dialog while no commit is in flight; the store handles a request
\* once, after which the request is gone for good: when the commit has
\* failed, no request is pending until the user confirms again.
C21_NoAutomaticRetry ==
    [][ LET Pending(c) == c # Null /\ c[1].stage = "put"
        IN  /\ (Pending(commit') /\ ~Pending(commit)) =>
                  /\ commit = Null
                  /\ showCommit /\ ~committing /\ committing'
                  /\ screen = "editor"
            /\ (commit # Null /\ commit' # Null
                /\ commit'[1].applied /\ ~commit[1].applied) =>
                  Pending(commit) /\ ~Pending(commit')
            /\ (last' # <<>> /\ last'[1] = "HandleCommitCatch") =>
                  commit' = Null /\ ~committing'
      ]_vars

\* C21 witness: a commit has failed on the network, nothing is pending, and
\* the dialog is still open for the user to confirm again.
C21_Witness ==
    /\ last # <<>>
    /\ last[1] = "HandleCommitCatch"
    /\ last[2].result = "network"
    /\ commit = Null
    /\ ~committing
    /\ showCommit
    /\ error # Null

\* C22: once a commit the store accepted has completed, and the editor still
\* holds what was committed, the draft store holds no draft for the
\* committed path, whenever the auto-save timeout that was pending at the
\* start of the commit fired.
C22_NoDraftAfterCommit ==
    (/\ last # <<>>
     /\ last[1] = "HandleCommitDone"
     /\ parseFile(last[2].content) = [frontmatter |-> frontmatter, body |-> body])
        => getDraft(drafts, last[2].path) = Null

\* C23: the completion of a commit changes the baseline and the dirty flag
\* only of the session of the file the commit was started for: when the
\* editor was left, or shows another file, they stay as they are; and a
\* baseline that is not null is a token of the open file, the one its open
\* read or the one a commit of its path returned.
C23_CommitCompletionScoped ==
    [][ /\ (/\ last' # <<>>
            /\ last'[1] = "HandleCommitDone"
            /\ (currentFile = Null \/ currentFile[1].path # last'[2].path))
           => (currentSha' = currentSha /\ dirty' = dirty)
        /\ currentSha' # Null =>
              /\ currentFile' # Null
              /\ \/ currentSha' = currentFile'[1].sha
                 \/ /\ currentSha'[1] = "commit"
                    /\ currentSha'[2] = currentFile'[1].path
      ]_vars

\* C24: the editor screen is shown only while credentials are present, and
\* a session without credentials has no file list and no open file: an open
\* or a listing that completes after the logout changes neither.
C24_EditorNeedsCredentials ==
    /\ screen = "editor" => creds # Null
    /\ creds = Null => (files = {} /\ currentFile = Null)

\* C25: a draft leaves the draft store only when handleCommit removes it
\* after the store accepted the commit of the draft's path; goBack, the
\* logout, a failed open and a failed commit leave the draft store as it is,
\* and what is done to one path leaves the draft of the other.
C25_DraftDeletedOnlyByCommit ==
    [][ /\ \A p \in repo :
              (drafts[p] # Null /\ drafts'[p] = Null) =>
                  /\ commit # Null
                  /\ commit[1].stage = "putOk"
                  /\ commit[1].applied
                  /\ commit[1].path = p
                  /\ remote[p] = commit[1].content
        /\ (screen = "editor" /\ screen' = "browser") => drafts' = drafts
        /\ (last' # <<>> /\ last'[1] \in {"HandleLogoutDone", "OpenFileFailed",
                                           "HandleCommitCatch", "OpenFileDone"})
              => drafts' = drafts
        /\ (last' # <<>> /\ last'[1] = "HandleCommitDone") => drafts' = drafts
      ]_vars

\* C25 witness: the commit of the page has completed and the draft of the
\* post, written before the post was left, is still in the draft store.
C25_Witness ==
    /\ last # <<>>
    /\ last[1] = "HandleCommitDone"
    /\ last[2].path = PagePath
    /\ getDraft(drafts, PostPath) # Null
    /\ getDraft(drafts, PagePath) = Null

====
